---- MODULE Spec2Model ----
(***************************************************************************)
(* Model of the numerical core of scripts/paper/figures.py: the calendar   *)
(* mapper conv_time_to_mpl_dates, the percentile summaries taken with      *)
(* np.median / np.percentile, the data preparation of                      *)
(* create_figure_3_timeseries and create_figure_0, the label formatter     *)
(* print_median_CI, and the module global traces with the functions that   *)
(* populate and read it.                                                   *)
(*                                                                         *)
(* Numbers.  Counts and draws are integers.  A percentile of integers is a *)
(* rational with denominator 40 for the q values the code uses (2.5, 12.5, *)
(* 50, 87.5, 97.5 are 1/40, 5/40, 20/40, 35/40, 39/40 of the way), so every *)
(* summary value is stored multiplied by PctScale = 40, exactly.           *)
(* Python values handed to conv_time_to_mpl_dates are tagged records:      *)
(* [t |-> "int", v |-> n], [t |-> "str", chars |-> <<"1","2">>],           *)
(* [t |-> "none"], [t |-> "list", items |-> <<...>>].                      *)
(***************************************************************************)
EXTENDS Integers, Sequences, FiniteSets, TLC

VARIABLES
    pc,             \* which step of the specification has run
    samples,        \* a sample matrix [sample][day], e.g. new_c_futu
    summary,        \* per day column: the medians and percentiles plotted
    conv_arg,       \* the argument of the last conv_time_to_mpl_dates call
    conv_res,       \* what that call returned or raised
    cases_obs,      \* observed cumulative counts (module level)
    num_days_data,  \* (date_data_end - date_data_begin).days
    new_cases,      \* trace["new_cases"], [sample][day]
    lambda_t,       \* trace["lambda_t"], [sample][day of the simulation]
    mu,             \* trace["mu"], [sample]
    fig3,           \* the arrays create_figure_3_timeseries prepares
    fig0,           \* the arrays of create_figure_0's total-cases panel
    ci_arr,         \* the argument of the last print_median_CI call
    ci_prec,        \* its prec argument
    ci_label,       \* what that call returned or raised
    traces,         \* the module global of that name
    runs,           \* executions of run_model_three_change_points so far
    calls           \* the figure functions called so far, with their outcome

vars == <<pc, samples, summary, conv_arg, conv_res, cases_obs, num_days_data,
          new_cases, lambda_t, mu, fig3, fig0, ci_arr, ci_prec, ci_label,
          traces, runs, calls>>

fmtVars == <<ci_arr, ci_prec, ci_label>>

figVars == <<traces, runs, calls>>

\* nothing called, nothing prepared
Idle ==
    /\ conv_arg = [t |-> "none"]
    /\ conv_res = [kind |-> "none"]
    /\ cases_obs = <<>>
    /\ num_days_data = 0
    /\ new_cases = <<>>
    /\ lambda_t = <<>>
    /\ mu = <<>>
    /\ fig3 = [done |-> FALSE]
    /\ fig0 = [done |-> FALSE]

\* print_median_CI not called
FmtIdle ==
    /\ ci_arr = <<>>
    /\ ci_prec = 0
    /\ ci_label = [kind |-> "none"]

\* the module just loaded, no figure function called
FigIdle ==
    /\ traces = [state |-> "unbound"]
    /\ runs = 0
    /\ calls = <<>>

-----------------------------------------------------------------------------
(* Bounds of the model *)

MaxSamples == 3     \* rows of a summarised sample matrix
MaxDays == 1        \* day columns of a summarised sample matrix
MaxVal == 2         \* sample values are 0..MaxVal

-----------------------------------------------------------------------------
(* Sequences *)

RECURSIVE SumSeq(_)
SumSeq(s) == IF s = <<>> THEN 0 ELSE Head(s) + SumSeq(Tail(s))

\* every sequence over S of a length in lens
SeqsOf(S, lens) == UNION {[1..n -> S] : n \in lens}

\* every matrix with a row count in rows, a column count in cols
Matrices(S, rows, cols) ==
    UNION {[1..r -> [1..c -> S]] : r \in rows, c \in cols}

Column(M, d) == [r \in 1..Len(M) |-> M[r][d]]

NumCols(M) == IF Len(M) = 0 THEN 0 ELSE Len(M[1])

-----------------------------------------------------------------------------
(* np.median and np.percentile over the sample axis *)

PctScale == 40

RECURSIVE InsertSorted(_, _)
InsertSorted(x, s) ==
    IF s = <<>> THEN <<x>>
    ELSE IF x <= Head(s) THEN <<x>> \o s
    ELSE <<Head(s)>> \o InsertSorted(x, Tail(s))

RECURSIVE NpSort(_)
NpSort(s) == IF s = <<>> THEN <<>> ELSE InsertSorted(Head(s), NpSort(Tail(s)))

\* the linear interpolation of np.percentile, on an already ordered array,
\* q in fortieths of 100 percent; the result is multiplied by PctScale
Lerp(a, q) ==
    LET pos == q * (Len(a) - 1)
        lo  == pos \div PctScale
        r   == pos % PctScale
        hi  == IF lo + 1 < Len(a) THEN lo + 1 ELSE lo
    IN  PctScale * a[lo + 1] + (a[hi + 1] - a[lo + 1]) * r

\* faulty variant: the percentile is read off the array as given, without ordering it
PercentileUnsorted(a, q) == Lerp(a, q)

\* faulty variant: the interpolation adds the upper neighbour instead of the difference
PercentileBadLerp(a, q) ==
    LET s   == NpSort(a)
        pos == q * (Len(s) - 1)
        lo  == pos \div PctScale
        r   == pos % PctScale
        hi  == IF lo + 1 < Len(s) THEN lo + 1 ELSE lo
    IN  PctScale * s[lo + 1] + s[hi + 1] * r

\* np.percentile(a, q=100*q/40), times PctScale
Percentile(a, q) == Lerp(NpSort(a), q)

\* np.median(a), times PctScale: the middle element, or the mean of the two
Median(a) ==
    LET s == NpSort(a)
        n == Len(s)
    IN  IF n % 2 = 1 THEN PctScale * s[(n + 1) \div 2]
        ELSE (PctScale \div 2) * (s[n \div 2] + s[n \div 2 + 1])

\* the q arguments of the code, in fortieths
\* faulty variant: the lower bound of the 95% band is taken at q=25
Q25 == PctScale \div 4

Q2_5 == 1
Q12_5 == 5
\* faulty variant: the upper bound of the 75% band is taken at q=85
Q85 == 7 * Q12_5 - Q2_5

Q87_5 == 35
Q97_5 == 39

\* the (lower q, upper q) pair of every band a figure function draws: the
\* 95% band of every panel and the 75% band of the forecast
Bands == {<<Q2_5, Q97_5>>, <<Q12_5, Q87_5>>}

\* the fit: the median line and the 95% band of new_c_past, per day
SummarizePast(M) ==
    [d \in 1..NumCols(M) |->
        [median |-> Median(Column(M, d)),
         p2_5   |-> Percentile(Column(M, d), Q2_5),
         p97_5  |-> Percentile(Column(M, d), Q97_5)]]

\* the forecast: the median line, the 95% and the 75% band of new_c_futu
SummarizeFutu(M) ==
    [d \in 1..NumCols(M) |->
        [median |-> Median(Column(M, d)),
         p2_5   |-> Percentile(Column(M, d), Q2_5),
         p97_5  |-> Percentile(Column(M, d), Q97_5),
         p12_5  |-> Percentile(Column(M, d), Q12_5),
         p87_5  |-> Percentile(Column(M, d), Q87_5)]]

-----------------------------------------------------------------------------
(* Specification of the summaries: a sample matrix is given and the figure  *)
(* code summarises it, as the fit or as the forecast                        *)

SampleMatrices == Matrices(0..MaxVal, 1..MaxSamples, 1..MaxDays)

InitSum ==
    /\ pc = "start"
    /\ samples \in SampleMatrices
    /\ summary = <<>>
    /\ Idle
    /\ FmtIdle
    /\ FigIdle

PlotPast ==
    /\ pc = "start"
    /\ summary' = SummarizePast(samples)
    /\ pc' = "past"
    /\ UNCHANGED <<samples, conv_arg, conv_res, cases_obs, num_days_data,
                   new_cases, lambda_t, mu, fig3, fig0, fmtVars,
                   figVars>>

PlotFutu ==
    /\ pc = "start"
    /\ summary' = SummarizeFutu(samples)
    /\ pc' = "futu"
    /\ UNCHANGED <<samples, conv_arg, conv_res, cases_obs, num_days_data,
                   new_cases, lambda_t, mu, fig3, fig0, fmtVars,
                   figVars>>

NextSum == PlotPast \/ PlotFutu

SpecSum == InitSum /\ [][NextSum]_vars

-----------------------------------------------------------------------------
(* Calendar: datetime.datetime values at midnight are [year, month, day];   *)
(* a timedelta of whole days is its number of days                          *)

IsLeap(y) == y % 4 = 0 /\ (y % 100 # 0 \/ y % 400 = 0)

DaysInMonth(y, m) ==
    IF m = 2 THEN (IF IsLeap(y) THEN 29 ELSE 28)
    ELSE IF m \in {4, 6, 9, 11} THEN 30 ELSE 31

DaysBeforeYear(y) ==
    (y - 1) * 365 + (y - 1) \div 4 - (y - 1) \div 100 + (y - 1) \div 400

RECURSIVE DaysBeforeMonth(_, _)
DaysBeforeMonth(y, m) ==
    IF m = 1 THEN 0 ELSE DaysBeforeMonth(y, m - 1) + DaysInMonth(y, m - 1)

\* date.toordinal(): 0001-01-01 is day 1
YmdToOrd(dt) ==
    DaysBeforeYear(dt.year) + DaysBeforeMonth(dt.year, dt.month) + dt.day

\* the years the model's dates fall in
Years == 2019..2021

\* date.fromordinal()
OrdToYmd(n) ==
    LET y == CHOOSE yy \in Years :
                 DaysBeforeYear(yy) < n /\ n <= DaysBeforeYear(yy + 1)
        k == n - DaysBeforeYear(y)
        m == CHOOSE mm \in 1..12 :
                 /\ DaysBeforeMonth(y, mm) < k
                 /\ k <= DaysBeforeMonth(y, mm) + DaysInMonth(y, mm)
    IN  [year |-> y, month |-> m, day |-> k - DaysBeforeMonth(y, m)]

\* datetime + datetime.timedelta(days=n), datetime - timedelta the same with -n
DatetimePlusDays(dt, n) == OrdToYmd(YmdToOrd(dt) + n)

\* matplotlib.dates.date2num of a datetime at midnight: its day number, the
\* proleptic Gregorian ordinal (a later matplotlib counts the same days from
\* 1970-01-01: every date-number shifts by one constant)
Date2Num(dt) == YmdToOrd(dt)

date_data_begin == [year |-> 2020, month |-> 3, day |-> 1]

diff_data_sim == 16

date_begin_sim == DatetimePlusDays(date_data_begin, -diff_data_sim)

-----------------------------------------------------------------------------
(* Python values and float() *)

PyInt(n) == [t |-> "int", v |-> n]
PyStr(cs) == [t |-> "str", chars |-> cs]
PyNone == [t |-> "none"]
PyList(xs) == [t |-> "list", items |-> xs]

Raise(e) == [kind |-> "raise", exc |-> e]

DigitChars == {"0", "1", "2", "3", "4", "5", "6", "7", "8", "9"}

DigitVal(c) ==
    CASE c = "0" -> 0 [] c = "1" -> 1 [] c = "2" -> 2 [] c = "3" -> 3
      [] c = "4" -> 4 [] c = "5" -> 5 [] c = "6" -> 6 [] c = "7" -> 7
      [] c = "8" -> 8 [] c = "9" -> 9

RECURSIVE DecimalVal(_)
DecimalVal(cs) ==
    IF cs = <<>> THEN 0
    ELSE 10 * DecimalVal(SubSeq(cs, 1, Len(cs) - 1)) + DigitVal(cs[Len(cs)])

\* float(x): a number converts, a string of digits is parsed, any other
\* string is a ValueError, None and a list are a TypeError
FloatOf(x) ==
    CASE x.t = "int"  -> [kind |-> "scalar", val |-> x.v]
      [] x.t = "str"  ->
            IF Len(x.chars) > 0 /\ \A i \in 1..Len(x.chars) : x.chars[i] \in DigitChars
            THEN [kind |-> "scalar", val |-> DecimalVal(x.chars)]
            ELSE Raise("ValueError")
      [] x.t = "none" -> Raise("TypeError")
      [] x.t = "list" -> Raise("TypeError")

\* for date in arr: a list yields its items, a string its characters, each a
\* one-character string; an int and None are not iterable
Iterable(x) == x.t \in {"list", "str"}

IterItems(x) ==
    IF x.t = "list" THEN x.items
    ELSE [i \in 1..Len(x.chars) |-> PyStr(<<x.chars[i]>>)]

-----------------------------------------------------------------------------
(* conv_time_to_mpl_dates *)

\* the try block: date2num of the list comprehension over arr
ConvTry(arr) ==
    IF ~Iterable(arr) THEN Raise("TypeError")
    ELSE LET items == IterItems(arr)
             fl == [i \in 1..Len(items) |-> FloatOf(items[i])]
             bad == {i \in 1..Len(items) : fl[i].kind = "raise"}
         IN  IF bad # {}
             THEN Raise(fl[CHOOSE i \in bad : \A j \in bad : i <= j].exc)
             ELSE [kind |-> "seq",
                   vals |-> [i \in 1..Len(items) |->
                       Date2Num(DatetimePlusDays(date_begin_sim, fl[i].val))]]

\* the except block: date2num of the one date, whatever made the try fail
ConvExcept(arr) ==
    LET f == FloatOf(arr)
    IN  IF f.kind = "raise" THEN f
        ELSE [kind |-> "scalar",
              val |-> Date2Num(DatetimePlusDays(date_begin_sim, f.val))]

\* faulty variant: the offsets are counted from the first data day, not from the
\* start of the simulation
ConvFromDataBegin(arr) ==
    LET r == ConvTry(arr)
        e == ConvExcept(arr)
    IN  IF r.kind # "raise"
        THEN [kind |-> "seq",
              vals |-> [i \in 1..Len(r.vals) |-> r.vals[i] + diff_data_sim]]
        ELSE IF e.kind = "raise" THEN e
        ELSE [kind |-> "scalar", val |-> e.val + diff_data_sim]

\* faulty variant: a single offset comes back as a one-element sequence
ConvAlwaysSeq(arr) ==
    LET r == ConvTry(arr)
    IN  IF r.kind # "raise" THEN r
        ELSE LET e == ConvExcept(arr)
             IN  IF e.kind = "raise" THEN e
                 ELSE [kind |-> "seq", vals |-> <<e.val>>]

conv_time_to_mpl_dates(arr) ==
    LET r == ConvTry(arr)
    IN  IF r.kind # "raise" THEN r ELSE ConvExcept(arr)

-----------------------------------------------------------------------------
(* Specification of the calendar mapper: it is called with one argument     *)

MaxOffset == 17     \* offsets are -MaxOffset..MaxOffset
MaxSeqLen == 2      \* sequences of offsets have up to MaxSeqLen elements

Offsets == -MaxOffset..MaxOffset

\* strings the mapper may be handed
Strings == {<<"1", "2">>, <<"a">>, <<"1", "a">>}

NumericScalars == {PyInt(n) : n \in Offsets}
NonNumericScalars == {PyStr(cs) : cs \in Strings} \cup {PyNone}

ListItems == NumericScalars \cup {PyStr(<<"2">>), PyStr(<<"a">>), PyNone}

ConvArgs ==
    NumericScalars \cup NonNumericScalars
        \cup {PyList(xs) : xs \in SeqsOf(ListItems, 0..MaxSeqLen)}

\* an offset, or a sequence of offsets
IsNumeric(x) ==
    \/ x.t = "int"
    \/ x.t = "list" /\ \A i \in 1..Len(x.items) : x.items[i].t = "int"

InitCal ==
    /\ pc = "start"
    /\ samples = <<>>
    /\ summary = <<>>
    /\ Idle
    /\ FmtIdle
    /\ FigIdle

CallConv ==
    /\ pc = "start"
    /\ \E arr \in ConvArgs :
          /\ conv_arg' = arr
          /\ conv_res' = conv_time_to_mpl_dates(arr)
    /\ pc' = "called"
    /\ UNCHANGED <<samples, summary, cases_obs, num_days_data, new_cases,
                   lambda_t, mu, fig3, fig0, fmtVars, figVars>>

NextCal == CallConv

SpecCal == InitCal /\ [][NextCal]_vars

-----------------------------------------------------------------------------
(* numpy on the arrays of the figures: a matrix is a sequence of rows       *)
(* [sample][day]                                                            *)

\* faulty variant: the differences are taken the wrong way round
NpDiffReversed(a) == [i \in 1..(Len(a) - 1) |-> a[i] - a[i + 1]]

\* np.diff(a)
NpDiff(a) == [i \in 1..(Len(a) - 1) |-> a[i + 1] - a[i]]

\* M[:, :n] and M[:, n:]; a slice past the end is clamped, not an error
ColsUpTo(M, n) ==
    [r \in 1..Len(M) |-> SubSeq(M[r], 1, IF n < Len(M[r]) THEN n ELSE Len(M[r]))]

ColsFrom(M, n) == [r \in 1..Len(M) |-> SubSeq(M[r], n + 1, Len(M[r]))]

\* np.insert(M, 0, 0, axis=1)
Insert0(M) == [r \in 1..Len(M) |-> <<0>> \o M[r]]

RECURSIVE CumsumSeq(_)
CumsumSeq(s) ==
    IF Len(s) <= 1 THEN s
    ELSE LET front == CumsumSeq(SubSeq(s, 1, Len(s) - 1))
         IN  Append(front, front[Len(front)] + s[Len(s)])

\* np.cumsum(M, axis=1)
CumsumAxis1(M) == [r \in 1..Len(M) |-> CumsumSeq(M[r])]

\* M.T
Transpose(M) == [d \in 1..NumCols(M) |-> Column(M, d)]

\* np.cumsum(T, axis=0) of a matrix [day][sample]
CumsumAxis0(T) ==
    [d \in 1..Len(T) |->
        [r \in 1..NumCols(T) |-> SumSeq([k \in 1..d |-> T[k][r]])]]

\* M + c
AddScalar(M, c) == [r \in 1..Len(M) |-> [d \in 1..Len(M[r]) |-> M[r][d] + c]]

AddToSeq(a, c) == [i \in 1..Len(a) |-> a[i] + c]

\* faulty variant: the end of the range is included
ArangeClosed(lo, hi) == [i \in 1..(hi - lo + 1) |-> lo + i - 1]

\* np.arange(lo, hi)
Arange(lo, hi) == [i \in 1..(hi - lo) |-> lo + i - 1]

IntList(a) == PyList([i \in 1..Len(a) |-> PyInt(a[i])])

-----------------------------------------------------------------------------
(* Module-level settings *)

MaxFutu == 2        \* the forecast horizon of the model
MaxData == 2        \* num_days_data is 0..MaxData

\* how many days to forecast: 28 in the source, MaxFutu here, which keeps
\* the traces small
num_days_futu == MaxFutu

\* faulty variant: the lead-in of the simulation is left out
DiffTo0NoLeadIn == num_days_data

\* days of simulation until forecast starts
diff_to_0 == num_days_data + diff_data_sim

\* the date num_days_data was computed from
date_data_end == DatetimePlusDays(date_data_begin, num_days_data)

date_end_sim == DatetimePlusDays(date_data_end, num_days_futu)

\* (date_end_sim - date_begin_sim).days
num_days_sim == Date2Num(date_end_sim) - Date2Num(date_begin_sim)

-----------------------------------------------------------------------------
(* create_figure_3_timeseries: dates and PREPARE DATA, for one trace        *)

\* faulty variant: the running sum of the forecast starts at zero
CumFromZero(M, anchor) == CumsumAxis1(Insert0(M))

\* np.cumsum(np.insert(M, 0, 0, axis=1), axis=1) + anchor
CumAnchored(M, anchor) == AddScalar(CumsumAxis1(Insert0(M)), anchor)

\* faulty variant: the fit is anchored at the last observation instead of the first
CumCPastAtLastObs(nc, obs, n) == CumAnchored(ColsUpTo(nc, n), obs[Len(obs)])

CumCPast(nc, obs, n) == CumAnchored(ColsUpTo(nc, n), obs[1])

CumCFutu(nc, obs, n) == CumAnchored(ColsFrom(nc, n), obs[Len(obs)])

Fig3Arrays ==
    LET time_past == Arange(-Len(cases_obs) + 1, 1)
        time_futu == Arange(0, num_days_futu + 1)
    IN  [done |-> TRUE,
         mid_date |-> conv_time_to_mpl_dates(PyInt(1)).val + diff_to_0,
         mpl_dates_past |->
             AddToSeq(conv_time_to_mpl_dates(IntList(time_past)).vals, diff_to_0),
         mpl_dates_futu |->
             AddToSeq(conv_time_to_mpl_dates(IntList(time_futu)).vals, diff_to_0),
         new_c_obsd |-> NpDiff(cases_obs),
         cum_c_obsd |-> cases_obs,
         new_c_past |-> ColsUpTo(new_cases, num_days_data),
         new_c_futu |-> ColsFrom(new_cases, num_days_data)]

\* faulty variant: the running sum is written back into its operand
\* (out=...), a slice that is a view of the trace's array
InputsAfterInPlaceCumsum(obs, nc, n) ==
    [cases_obs |-> obs,
     new_cases |->
         [r \in 1..Len(nc) |->
             CumsumAxis1(ColsUpTo(nc, n))[r] \o ColsFrom(nc, n)[r]]]

\* the arrays PREPARE DATA reads, as it leaves them: the slices are views
\* that are only read, cum_c_obsd is a second name of cases_obs that is
\* never written through, and np.diff, np.insert, np.cumsum and + each
\* return a new array
InputsAfterPrepare(obs, nc, n) == [cases_obs |-> obs, new_cases |-> nc]

\* cases_obs[0] of an empty array is an IndexError: nothing is prepared
Fig3Prepare ==
    /\ pc = "start"
    /\ fig3' =
          IF Len(cases_obs) = 0
          THEN [done |-> TRUE, raised |-> "IndexError", plotted |-> "no"]
          ELSE [raised |-> "none",
                plotted |-> "no",
                cum_c_past |-> CumCPast(new_cases, cases_obs, num_days_data),
                cum_c_futu |-> CumCFutu(new_cases, cases_obs, num_days_data)]
               @@ Fig3Arrays
    /\ cases_obs' =
          InputsAfterPrepare(cases_obs, new_cases, num_days_data).cases_obs
    /\ new_cases' =
          InputsAfterPrepare(cases_obs, new_cases, num_days_data).new_cases
    /\ pc' = "fig3"
    /\ UNCHANGED <<samples, summary, conv_arg, conv_res, num_days_data,
                   lambda_t, mu, fig0, fmtVars, figVars>>

\* NEW CASES LIN SCALE: ax.plot(x, y) raises a ValueError when x and y have
\* not the same first dimension; the data, the fit and the forecast are
\* plotted against mpl_dates_past[1:] and mpl_dates_futu[1:]
Fig3PlotResult ==
    IF \/ Len(Tail(fig3.mpl_dates_past)) # Len(fig3.new_c_obsd)
       \/ Len(Tail(fig3.mpl_dates_past)) # NumCols(fig3.new_c_past)
       \/ Len(Tail(fig3.mpl_dates_futu)) # NumCols(fig3.new_c_futu)
    THEN "ValueError" ELSE "ok"

Fig3Plot ==
    /\ pc = "fig3"
    /\ fig3.raised = "none"
    /\ fig3' = [fig3 EXCEPT !.plotted = Fig3PlotResult]
    /\ pc' = "plotted"
    /\ UNCHANGED <<samples, summary, conv_arg, conv_res, cases_obs,
                   num_days_data, new_cases, lambda_t, mu, fig0,
                   fmtVars, figVars>>

\* lambda_t - mu with mu = trace["mu"][:, None]: mu of the row is taken off
\* every day of the row
EffectiveRate(lam, m) ==
    [r \in 1..Len(lam) |-> [d \in 1..Len(lam[r]) |-> lam[r][d] - m[r]]]

\* GROWTH RATE LAMBDA*: the dates of all days of the simulation, the median and
\* the 95% band of lambda_t - mu
Fig3Growth ==
    /\ pc = "plotted"
    /\ fig3.plotted = "ok"
    /\ fig3' =
          [growth_dates |->
               AddToSeq(AddToSeq(
                   conv_time_to_mpl_dates(
                       IntList(Arange(-diff_to_0 + 1,
                                      -diff_to_0 + num_days_sim + 1))).vals,
                   diff_data_sim), num_days_data),
           growth |-> SummarizePast(EffectiveRate(lambda_t, mu))]
          @@ fig3
    /\ pc' = "growth"
    /\ UNCHANGED <<samples, summary, conv_arg, conv_res, cases_obs,
                   num_days_data, new_cases, lambda_t, mu, fig0, fmtVars,
                   figVars>>

-----------------------------------------------------------------------------
(* create_figure_0: the TOTAL CASES panel, for one trace of the loop        *)

Fig0CumCases(nc, obs, n) == AddScalar(CumsumAxis1(ColsUpTo(nc, n)), obs[1])

\* faulty variant: the running sum of the transposed draws is taken along
\* the samples instead of along the days
Fig0CasesFutuOverSamples(nc, obs, n) ==
    AddScalar(CumsumAxis1(Transpose(ColsFrom(nc, n))), obs[Len(obs)])

\* [day][sample]
Fig0CasesFutu(nc, obs, n) ==
    AddScalar(CumsumAxis0(Transpose(ColsFrom(nc, n))), obs[Len(obs)])

Fig0Total ==
    /\ pc = "fig3"
    /\ fig0' =
          IF Len(cases_obs) = 0
          THEN [done |-> TRUE, raised |-> "IndexError"]
          ELSE [done |-> TRUE,
                raised |-> "none",
                mpl_dates |->
                    AddToSeq(AddToSeq(
                        conv_time_to_mpl_dates(
                            IntList(Arange(-Len(cases_obs) + 2, 1))).vals,
                        diff_data_sim), num_days_data),
                mpl_dates_fut |->
                    AddToSeq(AddToSeq(
                        conv_time_to_mpl_dates(
                            IntList(Arange(0, num_days_futu + 1))).vals,
                        diff_data_sim), num_days_data),
                cum_cases |-> Fig0CumCases(new_cases, cases_obs, num_days_data),
                cases_futu |-> Fig0CasesFutu(new_cases, cases_obs, num_days_data)]
    /\ pc' = "fig0"
    /\ UNCHANGED <<samples, summary, conv_arg, conv_res, cases_obs,
                   num_days_data, new_cases, lambda_t, mu, fig3,
                   fmtVars, figVars>>

-----------------------------------------------------------------------------
(* Specification of the data preparation: the loader has delivered          *)
(* cases_obs, the sampler a trace, and the figure functions prepare their   *)
(* arrays.  The loader and the sampler are outside the repository: besides  *)
(* the shapes they are meant to deliver (num_days_data + 1 observations,    *)
(* num_days_data + num_days_futu day columns) the model lets them deliver   *)
(* no observation at all, one observation too many and a trace that ends    *)
(* before the last data day.                                                *)

ObsValues == {100, 110, 125}
DrawValues == {10, 20}

ObsLens(n) == {0, n + 1, n + 2}

TraceDays(n) == {n + num_days_futu} \cup (IF n > 0 THEN {n - 1} ELSE {})

\* a trace of one row of any draws, or of that row and a second one that
\* differs from it on every day (10 for 20 and 20 for 10)
Traces(days) ==
    LET rows == SeqsOf(DrawValues, days)
    IN  {<<row>> : row \in rows}
            \cup {<<row, [d \in 1..Len(row) |-> 30 - row[d]]>> : row \in rows}

InitAlign ==
    /\ pc = "start"
    /\ samples = <<>>
    /\ summary = <<>>
    /\ conv_arg = [t |-> "none"]
    /\ conv_res = [kind |-> "none"]
    /\ num_days_data \in 0..MaxData
    /\ cases_obs \in SeqsOf(ObsValues, ObsLens(num_days_data))
    /\ new_cases \in Traces(TraceDays(num_days_data))
    /\ lambda_t = <<>>
    /\ mu = <<>>
    /\ fig3 = [done |-> FALSE]
    /\ fig0 = [done |-> FALSE]
    /\ FmtIdle
    /\ FigIdle

NextAlign == Fig3Prepare \/ Fig3Plot \/ Fig0Total

SpecAlign == InitAlign /\ [][NextAlign]_vars

\* the inputs have the shapes the aligner is specified for
WellShaped ==
    /\ Len(cases_obs) = num_days_data + 1
    /\ \A r \in 1..Len(new_cases) :
          Len(new_cases[r]) = num_days_data + num_days_futu

-----------------------------------------------------------------------------
(* Specification of a whole pass over one trace: as above, with the rates   *)
(* of the trace and the growth-rate panel; the observed counts rise by ten  *)
(* a day from any of the observed values.                                   *)

ObsRamps(lens) ==
    {[i \in 1..n |-> first + 10 * (i - 1)] : first \in ObsValues, n \in lens}

\* the levels of the spreading rate, in hundredths per day
LambdaLevels == {40, 45}

\* the spreading rate of the trace: one level per sample row, lowered by a
\* step after the last data day
LambdaTraces(rows) ==
    LET days == num_days_sim
        data == diff_to_0
    IN  {[r \in 1..rows |->
             [d \in 1..days |-> IF d <= data THEN l + r ELSE l + r - 5]] :
            l \in LambdaLevels}

\* the recovery rate of the trace, in hundredths per day
MuTraces(rows) == {[r \in 1..rows |-> 12 + r]}

InitRead ==
    /\ pc = "start"
    /\ samples = <<>>
    /\ summary = <<>>
    /\ conv_arg = [t |-> "none"]
    /\ conv_res = [kind |-> "none"]
    /\ num_days_data \in 0..MaxData
    /\ cases_obs \in ObsRamps(ObsLens(num_days_data))
    /\ new_cases \in Traces(TraceDays(num_days_data))
    /\ lambda_t \in LambdaTraces(Len(new_cases))
    /\ mu \in MuTraces(Len(new_cases))
    /\ fig3 = [done |-> FALSE]
    /\ fig0 = [done |-> FALSE]
    /\ FmtIdle
    /\ FigIdle

NextRead == Fig3Prepare \/ Fig3Plot \/ Fig3Growth \/ Fig0Total

SpecRead == InitRead /\ [][NextRead]_vars

-----------------------------------------------------------------------------
(* print_median_CI and truncate_number.  A statistic of an array is         *)
(* [kind |-> "num", v |-> n, exact |-> b], n its value times PctScale,      *)
(* [kind |-> "nan"], or a raised error; a Python string is the sequence of  *)
(* its characters.                                                          *)

MaxPrec == 2        \* prec is 0..MaxPrec
MaxArr == 3         \* arr has 0..MaxArr elements
MaxElem == 2        \* the elements of arr are -1..MaxElem, or 5

Num(n, b) == [kind |-> "num", v |-> n, exact |-> b]

NaN == [kind |-> "nan"]

\* np.median(arr): nan (with a warning) for an empty array, else the median,
\* which for integers is a whole or a half and has no rounding error
NpMedian(a) == IF a = <<>> THEN NaN ELSE Num(Median(a), TRUE)

\* faulty variant: the percentile of an empty array is nan, as its median is
NpPercentileNan(a, q) ==
    IF a = <<>> THEN NaN ELSE Num(Percentile(a, q), FALSE)

\* np.percentile(arr, q): an empty array has no element to take and the
\* call raises; else the interpolated value, whose weight q/100 * (n-1) is
\* no binary fraction, so the double lies a rounding error above or below
NpPercentile(a, q) ==
    IF a = <<>> THEN Raise("IndexError") ELSE Num(Percentile(a, q), FALSE)

RECURSIVE Pow10(_)
Pow10(p) == IF p = 0 THEN 1 ELSE 10 * Pow10(p - 1)

DigitChar(d) ==
    CASE d = 0 -> "0" [] d = 1 -> "1" [] d = 2 -> "2" [] d = 3 -> "3"
      [] d = 4 -> "4" [] d = 5 -> "5" [] d = 6 -> "6" [] d = 7 -> "7"
      [] d = 8 -> "8" [] d = 9 -> "9"

\* the decimal digits of a natural number
RECURSIVE DecimalDigits(_)
DecimalDigits(n) ==
    IF n < 10 THEN <<DigitChar(n)>>
    ELSE DecimalDigits(n \div 10) \o <<DigitChar(n % 10)>>

RECURSIVE ZeroPad(_, _)
ZeroPad(cs, w) == IF Len(cs) >= w THEN cs ELSE ZeroPad(<<"0">> \o cs, w)

Magnitude(number) == IF number.v < 0 THEN -number.v ELSE number.v

\* |number| * 10^precision as the format rounds it to an integer: to the
\* nearest, a tie of an exact double to the even neighbour; a value that
\* carries a rounding error lies on one side of a decimal tie or the other
Rounded(number, precision) ==
    LET num  == Magnitude(number) * Pow10(precision)
        fl   == num \div PctScale
        rem  == num % PctScale
        half == PctScale \div 2
    IN  IF rem < half THEN {fl}
        ELSE IF rem > half THEN {fl + 1}
        ELSE IF number.exact THEN {IF fl % 2 = 0 THEN fl ELSE fl + 1}
        ELSE {fl, fl + 1}

\* sign, integer digits and, for a positive precision, the point and
\* exactly precision digits
FixedPoint(number, n, precision) ==
    (IF number.v < 0 THEN <<"-">> ELSE <<>>)
        \o DecimalDigits(n \div Pow10(precision))
        \o (IF precision = 0 THEN <<>>
            ELSE <<".">> \o ZeroPad(DecimalDigits(n % Pow10(precision)),
                                    precision))

\* faulty variant: the digits beyond the precision are cut off, not rounded
TruncateTowardZero(number, precision) ==
    IF number.kind = "nan" THEN {<<"n", "a", "n">>}
    ELSE {FixedPoint(number,
                     (Magnitude(number) * Pow10(precision)) \div PctScale,
                     precision)}

\* "{:.<precision>f}".format(number): the strings the call can return
truncate_number(number, precision) ==
    IF number.kind = "nan" THEN {<<"n", "a", "n">>}
    ELSE {FixedPoint(number, n, precision) : n \in Rounded(number, precision)}

LitMedian == <<"M", "e", "d", "i", "a", "n", ":", " ">>
LitCI == <<"\n", "C", "I", ":", " ", "[">>
LitSep == <<",", " ">>
LitEnd == <<"]">>

\* the outcomes of print_median_CI(arr, prec): the median is taken and
\* formatted first, then the two percentiles, then the label is built
print_median_CI(a, p) ==
    LET med   == truncate_number(NpMedian(a), p)
        perc1 == NpPercentile(a, Q2_5)
        perc2 == NpPercentile(a, Q97_5)
    IN  IF perc1.kind = "raise" THEN {perc1}
        ELSE IF perc2.kind = "raise" THEN {perc2}
        ELSE {[kind |-> "str",
               chars |-> LitMedian \o m \o LitCI \o lo \o LitSep \o hi
                             \o LitEnd] :
                  m \in med,
                  lo \in truncate_number(perc1, p),
                  hi \in truncate_number(perc2, p)}

\* Specification of the label: an array and a precision are given and
\* print_median_CI is called once
ArrValues == (-1..MaxElem) \cup {5}

InitFmt ==
    /\ pc = "start"
    /\ samples = <<>>
    /\ summary = <<>>
    /\ Idle
    /\ FigIdle
    /\ ci_arr \in SeqsOf(ArrValues, 0..MaxArr)
    /\ ci_prec \in 0..MaxPrec
    /\ ci_label = [kind |-> "none"]

CallPrintMedianCI ==
    /\ pc = "start"
    /\ ci_label' \in print_median_CI(ci_arr, ci_prec)
    /\ pc' = "labelled"
    /\ UNCHANGED <<samples, summary, conv_arg, conv_res, cases_obs,
                   num_days_data, new_cases, lambda_t, mu, fig3, fig0,
                   ci_arr, ci_prec, figVars>>

NextFmt == CallPrintMedianCI

SpecFmt == InitFmt /\ [][NextFmt]_vars

-----------------------------------------------------------------------------

(* The module global traces, run_model_three_change_points and the three   *)
(* figure functions that read traces.  traces is                            *)
(* [state |-> "unbound"] (no such name in the module namespace),            *)
(* [state |-> "None"] or [state |-> "list", items |-> <<...>>]; a model is  *)
(* what SIR_with_change_points was given, a trace the model it was sampled  *)
(* from.                                                                    *)

MaxCalls == 3       \* figure-function calls in one run of the module

\* the three priors of run_model_three_change_points; pr_median_lambda and
\* pr_sigma_lambda in eightieths
change_points ==
    <<[pr_mean_date_begin_transient |-> [year |-> 2020, month |-> 3, day |-> 9],
       pr_sigma_date_begin_transient |-> 3,
       pr_median_lambda |-> 16,
       pr_sigma_lambda |-> 40],
      [pr_mean_date_begin_transient |-> [year |-> 2020, month |-> 3, day |-> 16],
       pr_sigma_date_begin_transient |-> 1,
       pr_median_lambda |-> 10,
       pr_sigma_lambda |-> 40],
      [pr_mean_date_begin_transient |-> [year |-> 2020, month |-> 3, day |-> 23],
       pr_sigma_date_begin_transient |-> 1,
       pr_median_lambda |-> 5,
       pr_sigma_lambda |-> 40]>>

\* s[:n]
Take(s, n) == SubSeq(s, 1, IF n < Len(s) THEN n ELSE Len(s))

\* s[n:]
From(s, n) == SubSeq(s, n + 1, Len(s))

\* cov19.SIR_with_change_points(..., change_points_list=cps, ...)
SIRWithChangePoints(cps) ==
    [change_points_list |-> cps,
     date_begin_simulation |-> date_begin_sim,
     diff_data_sim |-> diff_data_sim]

\* pm.sample(model=model, ...)
PmSample(model) == [model |-> model]

\* faulty variant: the slice runs to num_change_points + 1, so the first
\* model already has a change point
ModelsOneAhead ==
    LET nums == Arange(0, 4)
    IN  [i \in 1..Len(nums) |->
            SIRWithChangePoints(Take(change_points, nums[i] + 1))]

\* for num_change_points in range(4): models.append(...)
Models ==
    LET nums == Arange(0, 4)
    IN  [i \in 1..Len(nums) |->
            SIRWithChangePoints(Take(change_points, nums[i]))]

\* models, traces of run_model_three_change_points
run_model_three_change_points ==
    [models |-> Models,
     traces |-> [i \in 1..Len(Models) |-> PmSample(Models[i])]]

\* zip(a, b, c): as many triples as the shortest argument has elements
Zip3(a, b, c) ==
    LET n == IF Len(a) <= Len(b)
             THEN (IF Len(a) <= Len(c) THEN Len(a) ELSE Len(c))
             ELSE (IF Len(b) <= Len(c) THEN Len(b) ELSE Len(c))
    IN  [i \in 1..n |-> <<a[i], b[i], c[i]>>]

colors == <<"tab:red", "tab:orange", "tab:green">>

legends ==
    <<"Forecasts:", "one change point", "two change points",
      "three change points">>

save_names == <<"Fig_S1", "Fig_3", "Fig_S3">>

\* what the figure functions of this part leave alone
restVars ==
    <<pc, samples, summary, conv_arg, conv_res, cases_obs, num_days_data,
      new_cases, lambda_t, mu, fig3, fig0, fmtVars>>

\* global traces; if traces is None: _, traces = run_model...(): whether
\* the test raises, what traces is bound to after it, and how often the
\* models were run
LazyTraces ==
    IF traces.state = "unbound"
    THEN [raised |-> "NameError", traces |-> traces, ran |-> 0]
    ELSE IF traces.state = "None"
    THEN [raised |-> "none",
          traces |-> [state |-> "list",
                      items |-> run_model_three_change_points.traces],
          ran |-> 1]
    ELSE [raised |-> "none", traces |-> traces, ran |-> 0]

Called(fn, raised, ran, read, pairs) ==
    [fn |-> fn, raised |-> raised, ran |-> ran, read |-> read, pairs |-> pairs]

\* create_figure_0: trace = traces[3], posterior = traces[1:], and the loops
\* over zip(posterior, colors, legends[1:])
create_figure_0 ==
    LET lazy == LazyTraces
        fn   == "create_figure_0"
    IN  /\ Len(calls) < MaxCalls
        /\ traces' = lazy.traces
        /\ runs' = runs + lazy.ran
        /\ calls' = Append(calls,
              IF lazy.raised # "none"
              THEN Called(fn, lazy.raised, lazy.ran, <<>>, <<>>)
              ELSE IF Len(lazy.traces.items) < 4
              THEN Called(fn, "IndexError", lazy.ran, <<>>, <<>>)
              ELSE Called(fn, "none", lazy.ran, <<lazy.traces.items[4]>>,
                          Zip3(From(lazy.traces.items, 1), colors,
                               From(legends, 1))))
        /\ UNCHANGED restVars

\* create_figure_3_timeseries: the loop over zip(traces[1:], colors, names)
create_figure_3_timeseries ==
    LET lazy == LazyTraces
        fn   == "create_figure_3_timeseries"
    IN  /\ Len(calls) < MaxCalls
        /\ traces' = lazy.traces
        /\ runs' = runs + lazy.ran
        /\ calls' = Append(calls,
              IF lazy.raised # "none"
              THEN Called(fn, lazy.raised, lazy.ran, <<>>, <<>>)
              ELSE Called(fn, "none", lazy.ran, <<>>,
                          Zip3(From(lazy.traces.items, 1), colors,
                               save_names)))
        /\ UNCHANGED restVars

\* create_figure_3_distributions: trace = traces[2], with no test of traces
\* before it
create_figure_3_distributions ==
    LET fn == "create_figure_3_distributions"
    IN  /\ Len(calls) < MaxCalls
        /\ calls' = Append(calls,
              IF traces.state = "unbound"
              THEN Called(fn, "NameError", 0, <<>>, <<>>)
              ELSE IF traces.state = "None"
              THEN Called(fn, "TypeError", 0, <<>>, <<>>)
              ELSE IF Len(traces.items) < 3
              THEN Called(fn, "IndexError", 0, <<>>, <<>>)
              ELSE Called(fn, "none", 0, <<traces.items[3]>>, <<>>))
        /\ UNCHANGED <<traces, runs>>
        /\ UNCHANGED restVars

\* the importing session binds the name the module leaves unbound, as the
\* commented-out line 65 would: figures.traces = None
BindTracesNone ==
    /\ traces.state = "unbound"
    /\ traces' = [state |-> "None"]
    /\ UNCHANGED <<runs, calls>>
    /\ UNCHANGED restVars

InitFig ==
    /\ pc = "start"
    /\ samples = <<>>
    /\ summary = <<>>
    /\ Idle
    /\ FmtIdle
    /\ FigIdle

NextFig ==
    \/ create_figure_3_distributions
    \/ create_figure_0
    \/ create_figure_3_timeseries
    \/ BindTracesNone

SpecFig == InitFig /\ [][NextFig]_vars

-----------------------------------------------------------------------------

(* create_figure_0, NEW CASES and TOTAL CASES panels: the past fit of both  *)
(* panels and the loops over the scenarios between them.  The traces carry  *)
(* their new_cases array here: [model |-> m, new_cases |-> [sample][day]].  *)

\* faulty variant: the loop runs over all traces, and zip stops after the
\* third
PosteriorAll(items) == items

\* posterior = traces[1:]
Posterior(items) == From(items, 1)

\* new_cases_past after the loop "for trace_scen, color, legend in zipped:
\* new_cases_past = trace_scen.new_cases[:, :num_days_data]": the name keeps
\* what the last iteration bound it to, or current if there was none
RECURSIVE LoopNewCasesPast(_, _, _)
LoopNewCasesPast(current, zipped, n) ==
    IF zipped = <<>> THEN current
    ELSE LoopNewCasesPast(ColsUpTo(Head(zipped)[1].new_cases, n),
                          Tail(zipped), n)

\* the dashed median line of every scenario of the loop
ScenarioMedians(zipped, n) ==
    [i \in 1..Len(zipped) |->
        [legend |-> zipped[i][3],
         median |->
             [d \in 1..NumCols(ColsUpTo(zipped[i][1].new_cases, n)) |->
                 Median(Column(ColsUpTo(zipped[i][1].new_cases, n), d))]]]

\* lines 130-131, 299-321 and 373-387 of create_figure_0
Fig0Panels ==
    LET items   == traces.items
        trace   == items[4]
        zipped  == Zip3(Posterior(items), colors, From(legends, 1))
        at_299  == ColsUpTo(trace.new_cases, num_days_data)
        at_373  == LoopNewCasesPast(at_299, zipped, num_days_data)
        cum     == AddScalar(CumsumAxis1(at_373), cases_obs[1])
    IN  /\ pc = "start"
        /\ traces.state = "list"
        /\ fig0' = [done |-> TRUE,
                    raised |-> "none",
                    new_band |-> SummarizePast(at_299),
                    scenarios |-> ScenarioMedians(zipped, num_days_data),
                    new_cases_past |-> at_373,
                    cum_cases |-> cum,
                    total_band |-> SummarizePast(cum)]
        /\ pc' = "panels"
        /\ UNCHANGED <<samples, summary, conv_arg, conv_res, cases_obs,
                       num_days_data, new_cases, lambda_t, mu, fig3, fmtVars,
                       figVars>>

\* Specification of the panels: four traces are given, each of two sample
\* rows on one of the draw values, rising by a day's index, and the observed
\* counts have num_days_data + 1 elements
ScenarioTrace(i, level) ==
    [model |-> Models[i],
     new_cases |->
         [r \in 1..2 |->
             [d \in 1..(num_days_data + num_days_futu) |->
                 level + (r - 1) * (i + d)]]]

InitPanels ==
    /\ pc = "start"
    /\ samples = <<>>
    /\ summary = <<>>
    /\ conv_arg = [t |-> "none"]
    /\ conv_res = [kind |-> "none"]
    /\ num_days_data \in 0..MaxData
    /\ cases_obs \in ObsRamps({num_days_data + 1})
    /\ new_cases = <<>>
    /\ lambda_t = <<>>
    /\ mu = <<>>
    /\ fig3 = [done |-> FALSE]
    /\ fig0 = [done |-> FALSE]
    /\ FmtIdle
    /\ runs = 1
    /\ calls = <<>>
    /\ \E levels \in [1..4 -> DrawValues] :
          traces = [state |-> "list",
                    items |-> [i \in 1..4 |-> ScenarioTrace(i, levels[i])]]

NextPanels == Fig0Panels

SpecPanels == InitPanels /\ [][NextPanels]_vars

-----------------------------------------------------------------------------

(* C1: for every sample matrix and every day column the plotted summary    *)
(* satisfies lower <= median <= upper, for the 95% band (2.5, 97.5), the    *)
(* 75% band (12.5, 87.5) and every other symmetric pair of percentiles on   *)
(* the fortieth grid.                                                       *)
C1_LowerMedianUpper ==
    pc \in {"past", "futu"} =>
        \A d \in 1..Len(summary) :
            /\ summary[d].p2_5 <= summary[d].median
            /\ summary[d].median <= summary[d].p97_5
            /\ pc = "futu" =>
                  /\ summary[d].p12_5 <= summary[d].median
                  /\ summary[d].median <= summary[d].p87_5
            /\ LET s == NpSort(Column(samples, d)) IN
               \A q \in 1..19 :
                  /\ Lerp(s, q) <= summary[d].median
                  /\ summary[d].median <= Lerp(s, PctScale - q)

\* a forecast column with three different values given out of order, whose
\* bands are strictly around the median
C1_Witness ==
    /\ pc = "futu"
    /\ Len(samples) = 3
    /\ samples[1][1] > samples[2][1]
    /\ samples[2][1] > samples[3][1]
    /\ summary[1].p2_5 < summary[1].p12_5
    /\ summary[1].p12_5 < summary[1].median
    /\ summary[1].median < summary[1].p87_5
    /\ summary[1].p87_5 < summary[1].p97_5

(* C2: conv_time_to_mpl_dates is affine with origin date_begin_sim: offset  *)
(* 0 maps to the date-number of date_begin_sim, and for every integer n,    *)
(* negative or not, given alone or in a sequence, the result is exactly n   *)
(* days after conv_time_to_mpl_dates(0).                                    *)
C2_Affine ==
    LET origin == conv_time_to_mpl_dates(PyInt(0)) IN
    /\ origin.kind = "scalar"
    /\ origin.val = Date2Num(date_begin_sim)
    /\ pc = "called" /\ conv_arg.t = "int" =>
          /\ conv_res.kind = "scalar"
          /\ conv_res.val - origin.val = conv_arg.v
    /\ pc = "called" /\ conv_arg.t = "list" /\ IsNumeric(conv_arg) =>
          /\ conv_res.kind = "seq"
          /\ \A i \in 1..Len(conv_arg.items) :
                conv_res.vals[i] - origin.val = conv_arg.items[i].v

\* the mapper was called with an offset beyond the leap day of 2020 and
\* returned the first data day, 2020-03-01
C2_Witness ==
    /\ pc = "called"
    /\ conv_arg.t = "int"
    /\ conv_arg.v = diff_data_sim
    /\ conv_res.kind = "scalar"
    /\ conv_res.val = Date2Num(date_data_begin)

(* C7 (as claimed): for every non-numeric input, a string, None or a        *)
(* sequence with a non-numeric element, conv_time_to_mpl_dates raises an    *)
(* error and returns no date.                                               *)
C7_NonNumericRaises ==
    pc = "called" /\ ~IsNumeric(conv_arg) => conv_res.kind = "raise"

(* C8: for a sequence of offsets the mapper returns a sequence of the same  *)
(* length and order whose i-th element is what the i-th offset maps to      *)
(* alone; for a single offset it returns a single date-number.              *)
C8_ScalarOrSequence ==
    /\ pc = "called" /\ conv_arg.t = "int" =>
          /\ conv_res.kind = "scalar"
          /\ conv_res.val = Date2Num(DatetimePlusDays(date_begin_sim, conv_arg.v))
    /\ pc = "called" /\ conv_arg.t = "list" /\ IsNumeric(conv_arg) =>
          /\ conv_res.kind = "seq"
          /\ Len(conv_res.vals) = Len(conv_arg.items)
          /\ \A i \in 1..Len(conv_arg.items) :
                LET one == conv_time_to_mpl_dates(conv_arg.items[i])
                IN  one.kind = "scalar" /\ conv_res.vals[i] = one.val

\* a sequence of two different offsets, the larger first, was mapped to two
\* dates in that order
C8_Witness ==
    /\ pc = "called"
    /\ conv_arg.t = "list"
    /\ IsNumeric(conv_arg)
    /\ Len(conv_arg.items) = 2
    /\ conv_arg.items[1].v > conv_arg.items[2].v
    /\ conv_res.kind = "seq"
    /\ conv_res.vals[1] > conv_res.vals[2]

(* C3: the first forecast value is dated one day after the last observed    *)
(* data day, at conv_time_to_mpl_dates(1) + diff_to_0 = date_data_end + 1,  *)
(* and the last past-fit value at date_data_end: the two segments abut      *)
(* with no gap and no overlap.                                              *)
C3_SegmentsAbut ==
    pc # "start" /\ fig3.raised = "none" =>
        LET past == Tail(fig3.mpl_dates_past)
            futu == Tail(fig3.mpl_dates_futu)
        IN  /\ Len(futu) = num_days_futu
            /\ futu[1] = Date2Num(date_data_end) + 1
            /\ futu[1] = fig3.mid_date
            /\ Len(past) > 0 =>
                  /\ past[Len(past)] = Date2Num(date_data_end)
                  /\ futu[1] = past[Len(past)] + 1

\* three observations from 2020-03-01 on: the fit ends on 2020-03-03 and the
\* forecast starts on 2020-03-04
C3_Witness ==
    /\ pc = "fig3"
    /\ fig3.raised = "none"
    /\ WellShaped
    /\ num_days_data = 2
    /\ fig3.mpl_dates_past[Len(fig3.mpl_dates_past)]
          = Date2Num([year |-> 2020, month |-> 3, day |-> 3])
    /\ fig3.mpl_dates_futu[2] = Date2Num([year |-> 2020, month |-> 3, day |-> 4])

\* the draws of row r for the future days 0..k
FutureDraws(r, k) ==
    SubSeq(new_cases[r], num_days_data + 1, num_days_data + 1 + k)

\* the draws of row r for the data days
PastDraws(r) ==
    SubSeq(new_cases[r], 1,
           IF num_days_data < Len(new_cases[r])
           THEN num_days_data ELSE Len(new_cases[r]))

(* C4: the cumulative future series is anchored at the last observed        *)
(* cumulative count: for every sample row its value at future day k is      *)
(* cases_obs[-1] plus the sum of the row's future draws 0..k, in            *)
(* create_figure_3_timeseries (whose column 0 is the anchor itself, dated   *)
(* date_data_end) and in create_figure_0.                                   *)
C4_FutureAnchoredAtObserved ==
    /\ pc # "start" /\ fig3.raised = "none" =>
          \A r \in 1..Len(new_cases) :
              /\ fig3.cum_c_futu[r][1] = cases_obs[Len(cases_obs)]
              /\ \A k \in 0..(Len(fig3.new_c_futu[r]) - 1) :
                    fig3.cum_c_futu[r][k + 2]
                        = cases_obs[Len(cases_obs)] + SumSeq(FutureDraws(r, k))
    /\ pc = "fig0" /\ fig0.raised = "none" =>
          \A r \in 1..Len(new_cases) :
              \A k \in 0..(Len(fig0.cases_futu) - 1) :
                  fig0.cases_futu[k + 1][r]
                      = cases_obs[Len(cases_obs)] + SumSeq(FutureDraws(r, k))

\* observed 100, 110, 125 and future draws of 20 and 10: the cumulative
\* forecast is 145, then 155, in both figures
C4_Witness ==
    /\ pc = "fig0"
    /\ fig0.raised = "none"
    /\ WellShaped
    /\ cases_obs = <<100, 110, 125>>
    /\ Len(new_cases) = 2
    /\ new_cases[1] = <<10, 10, 20, 10>>
    /\ fig0.cases_futu[1] = <<145, 135>>
    /\ fig0.cases_futu[2] = <<155, 155>>
    /\ fig3.cum_c_futu[1] = <<125, 145, 155>>

(* C5 (as claimed): for every sample row the value at which the cumulative  *)
(* future series starts its running sum equals the last value of the        *)
(* row's cumulative past-fit series.                                        *)
C5_NoDiscontinuity ==
    pc # "start" /\ WellShaped /\ fig3.raised = "none" =>
        \A r \in 1..Len(new_cases) :
            fig3.cum_c_futu[r][1] = fig3.cum_c_past[r][Len(fig3.cum_c_past[r])]

(* C5 (amended): the cumulative future series starts its running sum at     *)
(* cases_obs[-1], the cumulative past-fit series ends at cases_obs[0] plus  *)
(* the sum of the row's past draws; the step between them is the observed   *)
(* increase minus the fitted increase, so the two meet exactly in the rows  *)
(* whose past draws sum to cases_obs[-1] - cases_obs[0].                    *)
C5_StepIsObservedMinusFitted ==
    /\ pc # "start" /\ WellShaped /\ fig3.raised = "none" =>
          \A r \in 1..Len(new_cases) :
              LET last == fig3.cum_c_past[r][Len(fig3.cum_c_past[r])] IN
              /\ Len(fig3.cum_c_past[r]) = num_days_data + 1
              /\ last = cases_obs[1] + SumSeq(PastDraws(r))
              /\ fig3.cum_c_futu[r][1] - last
                    = (cases_obs[Len(cases_obs)] - cases_obs[1])
                          - SumSeq(PastDraws(r))
    /\ pc = "fig0" /\ WellShaped /\ fig0.raised = "none" /\ num_days_data > 0 =>
          \A r \in 1..Len(new_cases) :
              fig0.cum_cases[r][num_days_data]
                  = cases_obs[1] + SumSeq(PastDraws(r))

\* a row whose fit overshoots the data: the forecast restarts below it
C5_Witness ==
    /\ pc = "fig3"
    /\ WellShaped
    /\ fig3.raised = "none"
    /\ num_days_data = 2
    /\ cases_obs = <<100, 110, 125>>
    /\ fig3.cum_c_past[1][3] = 140
    /\ fig3.cum_c_futu[1][1] = 125

(* C6 (as claimed): whenever the observed sequence's length is not          *)
(* num_days_data + 1, or the past draws have not num_days_data day          *)
(* columns, the preparation fails with an error and produces no series.     *)
C6_LengthMismatchRaises ==
    pc # "start" /\ Len(cases_obs) > 0
        /\ (\/ Len(cases_obs) # num_days_data + 1
            \/ \E r \in 1..Len(new_cases) : Len(PastDraws(r)) # num_days_data)
    => fig3.raised # "none"

(* C9: the first differences of the observed counts (np.diff), summed up    *)
(* again behind a leading zero and anchored at cases_obs[0], are the        *)
(* observed counts, for every observed sequence of length >= 1.             *)
C9_DiffCumsumRoundTrip ==
    pc # "start" /\ Len(cases_obs) >= 1 =>
        /\ Len(fig3.new_c_obsd) = Len(cases_obs) - 1
        /\ CumAnchored(<<fig3.new_c_obsd>>, cases_obs[1]) = <<cases_obs>>

\* observed counts that rise and fall have been differenced
C9_Witness ==
    /\ pc = "fig3"
    /\ cases_obs = <<110, 125, 100>>
    /\ fig3.new_c_obsd = <<15, -25>>

(* C10: a day column whose samples all equal v has median = lower = upper  *)
(* = v at both coverage levels (and at every grid percentile); a matrix    *)
(* with one sample row is the case of one sample.                           *)
C10_ConstantColumn ==
    pc \in {"past", "futu"} =>
        \A d \in 1..Len(summary) :
            (\A r \in 1..Len(samples) : samples[r][d] = samples[1][d]) =>
                LET v == PctScale * samples[1][d] IN
                /\ summary[d].median = v
                /\ summary[d].p2_5 = v
                /\ summary[d].p97_5 = v
                /\ pc = "futu" => summary[d].p12_5 = v /\ summary[d].p87_5 = v
                /\ \A q \in 0..PctScale : Percentile(Column(samples, d), q) = v

\* three equal samples of a positive value have been summarised
C10_Witness ==
    /\ pc = "futu"
    /\ Len(samples) = 3
    /\ \A r \in 1..3 : samples[r][1] = 2
    /\ summary[1].median = 2 * PctScale
    /\ summary[1].p2_5 = 2 * PctScale
    /\ summary[1].p97_5 = 2 * PctScale

\* the percentile ranks, in fortieths of 100, that bound the central
\* interval of coverage c, c in fortieths of 1: 100*(1-c)/2 and
\* 100*(1-(1-c)/2)
LowerRank(c) == (PctScale - c) \div 2
UpperRank(c) == PctScale - (PctScale - c) \div 2

(* C11: the bounds of an interval of coverage c are the 100*(1-c)/2 and the *)
(* 100*(1-(1-c)/2) percentile and its centre is the 50th: the plotted 95%   *)
(* band is taken at q=2.5 and q=97.5, the 75% band at q=12.5 and q=87.5,    *)
(* the median line is the 50th percentile, and the two q of every band add  *)
(* up to 100.                                                               *)
C11_SymmetricBands ==
    /\ \A b \in Bands : b[1] + b[2] = PctScale
    /\ Bands = {<<LowerRank(c), UpperRank(c)>> : c \in {38, 30}}
    /\ pc \in {"past", "futu"} =>
          \A d \in 1..Len(summary) :
              LET col == Column(samples, d) IN
              /\ summary[d].median = Percentile(col, PctScale \div 2)
              /\ summary[d].p2_5 = Percentile(col, LowerRank(38))
              /\ summary[d].p97_5 = Percentile(col, UpperRank(38))
              /\ pc = "futu" =>
                    /\ summary[d].p12_5 = Percentile(col, LowerRank(30))
                    /\ summary[d].p87_5 = Percentile(col, UpperRank(30))

\* a forecast column of two different samples: its four band bounds differ
\* from each other and from the percentiles one rank further in
C11_Witness ==
    /\ pc = "futu"
    /\ Len(samples) = 2
    /\ samples[1][1] # samples[2][1]
    /\ summary[1].p2_5 # Percentile(Column(samples, 1), Q2_5 + 1)
    /\ summary[1].p87_5 # Percentile(Column(samples, 1), Q87_5 - 1)
    /\ summary[1].p2_5 < summary[1].p12_5
    /\ summary[1].p87_5 < summary[1].p97_5

\* s begins with the characters lit
StartsWith(s, lit) == Len(s) >= Len(lit) /\ SubSeq(s, 1, Len(lit)) = lit

\* s without its first n characters
Drop(s, n) == SubSeq(s, n + 1, Len(s))

\* the longest prefix of s made of sign, digit and point characters
RECURSIVE NumberPrefix(_)
NumberPrefix(s) ==
    IF s = <<>> \/ Head(s) \notin (DigitChars \cup {"-", "."}) THEN <<>>
    ELSE <<Head(s)>> \o NumberPrefix(Tail(s))

\* the label read back: the three numbers between the fixed texts, and
\* whether the fixed texts are all there and nothing else is
ParsedLabel(s) ==
    LET r1 == Drop(s, Len(LitMedian))
        m  == NumberPrefix(r1)
        r2 == Drop(r1, Len(m))
        r3 == Drop(r2, Len(LitCI))
        lo == NumberPrefix(r3)
        r4 == Drop(r3, Len(lo))
        r5 == Drop(r4, Len(LitSep))
        hi == NumberPrefix(r5)
        r6 == Drop(r5, Len(hi))
    IN  [ok |-> /\ StartsWith(s, LitMedian)
                /\ StartsWith(r2, LitCI)
                /\ StartsWith(r4, LitSep)
                /\ r6 = LitEnd,
         m |-> m, lo |-> lo, hi |-> hi]

Unsigned(x) == IF x # <<>> /\ Head(x) = "-" THEN Tail(x) ELSE x

\* x is an optional minus sign, at least one digit and, for p > 0, a point
\* followed by exactly p digits; for p = 0 it has no point
HasPrecision(x, p) ==
    LET b == Unsigned(x)
        w == IF p = 0 THEN Len(b) ELSE Len(b) - p - 1
    IN  /\ w >= 1
        /\ \A i \in 1..Len(b) :
              IF p > 0 /\ i = w + 1 THEN b[i] = "." ELSE b[i] \in DigitChars

\* the digits of x read as one integer: the value of x times 10^p
ScaledDigits(x) ==
    DecimalVal(SelectSeq(Unsigned(x), LAMBDA c : c \in DigitChars))

\* x renders the value v / PctScale with p decimals: right sign, the
\* nearest decimal, and on an exact tie the even one
Renders(x, v, p, exact) ==
    LET n    == ScaledDigits(x)
        want == (IF v < 0 THEN -v ELSE v) * Pow10(p)
        err  == PctScale * n - want
    IN  /\ HasPrecision(x, p)
        /\ (x[1] = "-") <=> (v < 0)
        /\ 2 * err <= PctScale /\ 2 * err >= -PctScale
        /\ exact /\ (2 * err = PctScale \/ 2 * err = -PctScale) => n % 2 = 0

(* C12: for a non-empty array print_median_CI returns exactly              *)
(* "Median: {m}\nCI: [{lo}, {hi}]" where m, lo and hi render the median,   *)
(* the 2.5th and the 97.5th percentile with exactly prec digits after the  *)
(* decimal point, zero-padded, without a point when prec = 0, each rounded *)
(* to the nearest decimal and a tie of an exactly represented value to the *)
(* even one; [5, 5, 5] with prec = 2 gives "Median: 5.00\nCI: [5.00,       *)
(* 5.00]".                                                                 *)
C12_LabelFormat ==
    /\ pc = "labelled" /\ ci_arr # <<>> =>
          /\ ci_label.kind = "str"
          /\ LET f == ParsedLabel(ci_label.chars) IN
             /\ f.ok
             /\ Renders(f.m, Median(ci_arr), ci_prec, TRUE)
             /\ Renders(f.lo, Percentile(ci_arr, Q2_5), ci_prec, FALSE)
             /\ Renders(f.hi, Percentile(ci_arr, Q97_5), ci_prec, FALSE)
    /\ pc = "labelled" /\ ci_arr = <<5, 5, 5>> /\ ci_prec = 2 =>
          ci_label.chars
              = <<"M", "e", "d", "i", "a", "n", ":", " ", "5", ".", "0", "0",
                  "\n", "C", "I", ":", " ", "[", "5", ".", "0", "0", ",", " ",
                  "5", ".", "0", "0", "]">>

\* the label of [1, 2, 5] with one decimal: the median 2, the percentiles
\* 1.05 and 4.85 shown as 1.0 or 1.1 and 4.8 or 4.9
C12_Witness ==
    /\ pc = "labelled"
    /\ ci_arr = <<1, 2, 5>>
    /\ ci_prec = 1
    /\ ci_label.kind = "str"
    /\ ParsedLabel(ci_label.chars).m = <<"2", ".", "0">>
    /\ ParsedLabel(ci_label.chars).lo \in {<<"1", ".", "0">>, <<"1", ".", "1">>}
    /\ ParsedLabel(ci_label.chars).hi \in {<<"4", ".", "8">>, <<"4", ".", "9">>}

(* C13: print_median_CI with an empty array fails with an error and        *)
(* returns no label: it never returns a label built from "nan".            *)
C13_EmptyArrayRaises ==
    pc = "labelled" /\ ci_arr = <<>> =>
        /\ ci_label.kind = "raise"
        /\ \A p \in 0..MaxPrec :
              \A out \in print_median_CI(<<>>, p) : out.kind # "str"

\* the call with an empty array has raised, although the median of the
\* empty array is nan and formats as "nan"
C13_Witness ==
    /\ pc = "labelled"
    /\ ci_arr = <<>>
    /\ ci_label.kind = "raise"
    /\ NpMedian(ci_arr).kind = "nan"
    /\ truncate_number(NpMedian(ci_arr), ci_prec) = {<<"n", "a", "n">>}

DatedFrom(dates, k, n) ==
    /\ Len(dates) = n
    /\ \A i \in 1..n :
          dates[i] = Date2Num(DatetimePlusDays(date_data_begin, k + i - 1))
    /\ \A i \in 1..(n - 1) : dates[i + 1] = dates[i] + 1

(* C15: given num_days_data + 1 observations and a trace of num_days_data  *)
(* + num_days_futu day columns, each of the four series has as many dates  *)
(* as values and consecutive dates one day apart: the past new counts are  *)
(* num_days_data points dated date_data_begin+1 .. date_data_end, the      *)
(* future new counts num_days_futu points dated date_data_end+1 ..         *)
(* date_data_end+num_days_futu; the cumulative series of create_figure_0   *)
(* lie on the same dates, and those of create_figure_3_timeseries have     *)
(* one more column, for the day before, as have its date arrays.           *)
C15_DatesMatchValues ==
    /\ pc # "start" /\ WellShaped /\ fig3.raised = "none" =>
          /\ DatedFrom(Tail(fig3.mpl_dates_past), 1, num_days_data)
          /\ DatedFrom(Tail(fig3.mpl_dates_futu), num_days_data + 1,
                       num_days_futu)
          /\ Date2Num(date_data_end)
                = Date2Num(date_data_begin) + num_days_data
          /\ Len(fig3.new_c_obsd) = num_days_data
          /\ DatedFrom(fig3.mpl_dates_past, 0, num_days_data + 1)
          /\ DatedFrom(fig3.mpl_dates_futu, num_days_data, num_days_futu + 1)
          /\ \A r \in 1..Len(new_cases) :
                /\ Len(fig3.new_c_past[r]) = num_days_data
                /\ Len(fig3.new_c_futu[r]) = num_days_futu
                /\ Len(fig3.cum_c_past[r]) = Len(fig3.mpl_dates_past)
                /\ Len(fig3.cum_c_futu[r]) = Len(fig3.mpl_dates_futu)
    /\ pc = "fig0" /\ WellShaped /\ fig0.raised = "none" =>
          /\ DatedFrom(fig0.mpl_dates, 1, num_days_data)
          /\ DatedFrom(Tail(fig0.mpl_dates_fut), num_days_data + 1,
                       num_days_futu)
          /\ Len(fig0.cases_futu) = num_days_futu
          /\ \A r \in 1..Len(new_cases) :
                Len(fig0.cum_cases[r]) = num_days_data
    /\ pc = "plotted" /\ WellShaped => fig3.plotted = "ok"

\* two data days after 2020-03-01: the fit is dated 03-02 and 03-03, the
\* forecast 03-04 and 03-05, in both figures
C15_Witness ==
    /\ pc = "fig0"
    /\ WellShaped
    /\ num_days_data = 2
    /\ fig0.raised = "none"
    /\ Tail(fig3.mpl_dates_past)
          = <<Date2Num([year |-> 2020, month |-> 3, day |-> 2]),
              Date2Num([year |-> 2020, month |-> 3, day |-> 3])>>
    /\ Tail(fig3.mpl_dates_futu)
          = <<Date2Num([year |-> 2020, month |-> 3, day |-> 4]),
              Date2Num([year |-> 2020, month |-> 3, day |-> 5])>>
    /\ fig0.mpl_dates = Tail(fig3.mpl_dates_past)
    /\ NumCols(fig3.new_c_past) = 2
    /\ NumCols(fig3.new_c_futu) = 2

\* the calls of the two figure functions that populate traces lazily
LazyCalls ==
    {i \in 1..Len(calls) :
        calls[i].fn \in {"create_figure_0", "create_figure_3_timeseries"}}

(* C16 (as claimed): over any sequence of calls of create_figure_0 and     *)
(* create_figure_3_timeseries after the module is loaded,                  *)
(* run_model_three_change_points has been executed exactly once, by the    *)
(* first of these calls, and every later call reuses the stored traces.    *)
C16_RunsOnceOnFirstCall ==
    LazyCalls # {} =>
        /\ runs = 1
        /\ \A i \in LazyCalls :
              /\ calls[i].raised = "none"
              /\ calls[i].ran = (IF \A j \in LazyCalls : i <= j THEN 1 ELSE 0)

(* C17 (as claimed): in whatever order the three figure functions are      *)
(* called after the module is loaded, no call fails and every call reads   *)
(* a populated trace collection.                                            *)
C17_NoOrderingHazard ==
    \A i \in 1..Len(calls) :
        /\ calls[i].raised = "none"
        /\ calls[i].fn = "create_figure_3_distributions" =>
              calls[i].read # <<>>

\* the number of change points of the model a trace was sampled from
NumChangePoints(trace) == Len(trace.model.change_points_list)

C18_BandsNested ==
    pc = "futu" =>
        \A d \in 1..Len(summary) :
            /\ summary[d].p2_5 <= summary[d].p12_5
            /\ summary[d].p12_5 <= summary[d].median
            /\ summary[d].median <= summary[d].p87_5
            /\ summary[d].p87_5 <= summary[d].p97_5

\* a forecast column of the samples 0, 2, 1: the 75% band is narrower than
\* the 95% band and wider than nothing
C18_Witness ==
    /\ pc = "futu"
    /\ Column(samples, 1) = <<0, 2, 1>>
    /\ summary[1].p97_5 - summary[1].p2_5 > summary[1].p87_5 - summary[1].p12_5
    /\ summary[1].p87_5 - summary[1].p12_5 > 0
    /\ summary[1].p12_5 - summary[1].p2_5 = summary[1].p97_5 - summary[1].p87_5

(* C20: the two figure functions compute the same cumulative series from   *)
(* the same trace and observations: cum_c_futu of                           *)
(* create_figure_3_timeseries without its first column is the cumulative   *)
(* future series of create_figure_0, transposed, and cum_c_past without    *)
(* its first column is create_figure_0's cumsum(new_cases_past) +          *)
(* cases_obs[0].                                                            *)
C20_SameCumulativeSeries ==
    pc = "fig0" =>
        /\ fig0.raised = fig3.raised
        /\ fig0.raised = "none" =>
              /\ Len(fig0.cum_cases) = Len(fig3.cum_c_past)
              /\ \A r \in 1..Len(new_cases) :
                    /\ fig0.cum_cases[r] = Tail(fig3.cum_c_past[r])
                    /\ Len(fig0.cases_futu) = Len(Tail(fig3.cum_c_futu[r]))
                    /\ \A k \in 1..Len(fig0.cases_futu) :
                          fig0.cases_futu[k][r] = fig3.cum_c_futu[r][k + 1]

\* a trace of two rows with two future days: both functions have 145 then
\* 155 for the first row and 135 then 155 for the second
C20_Witness ==
    /\ pc = "fig0"
    /\ fig0.raised = "none"
    /\ WellShaped
    /\ Len(new_cases) = 2
    /\ Tail(fig3.cum_c_futu[1]) = <<145, 155>>
    /\ Tail(fig3.cum_c_futu[2]) = <<135, 155>>
    /\ fig0.cases_futu = <<<<145, 135>>, <<155, 155>>>>
    /\ fig0.cum_cases[1] = Tail(fig3.cum_c_past[1])
    /\ Len(fig0.cum_cases[1]) = 2

====
